---- MODULE Spec2Model ----
(***************************************************************************)
(* Model of the todo-sqlite application: the dual storage backend          *)
(* (AsyncStorage blob on the web, expo-sqlite on native), the App          *)
(* component's user actions (mutate, then full reload), and the TaskList   *)
(* component's filter and sort.                                            *)
(*                                                                         *)
(* JavaScript values are tagged records [t, s]: t is the type tag and s    *)
(* the characters of a string (one-character strings), <<>> otherwise.     *)
(***************************************************************************)
EXTENDS Integers, Sequences, FiniteSets, TLC

VARIABLES
    platform,   \* Platform.OS: "web" or "native"
    kv,         \* AsyncStorage entry '@tasks': NoItem or a JSON document
    sql,        \* tasks.db: [cols, rows, seq, lastId]
    clock,      \* the value Date.now() returns
    db,         \* App state db: "null", "web" or "native"
    tasks,      \* App state tasks
    booted,     \* the mount effect of App has run
    nOps,       \* number of user actions taken
    last,       \* what the last handler did (history)
    dual,       \* lockstep run of both backends: created tasks' ids
    view,       \* TaskList: props, state and the memoized results
    calls       \* user actions in flight: each one's statement and position

vars ==
    <<platform, kv, sql, clock, db, tasks, booted, nOps, last, dual, view,
      calls>>

-----------------------------------------------------------------------------
(* Bounds *)

MaxOps == 3
MaxTicks == 1
MaxDualOps == 3
MaxViewTasks == 2
MaxCalls == 2

-----------------------------------------------------------------------------
(* JavaScript values *)

JNull == [t |-> "null", s |-> <<>>]
JUndef == [t |-> "undefined", s |-> <<>>]
Str(chars) == [t |-> "string", s |-> chars]

\* ToBoolean on the values the program handles (strings, null, undefined)
Truthy(v) == v.t = "string" /\ v.s # <<>>

\* a || b
OrElse(a, b) == IF Truthy(a) THEN a ELSE b

\* the letter e with an acute accent (U+00E9) and its capital (U+00C9),
\* each one character
eAcute == "e-acute"
EAcute == "E-acute"

\* 'En cours' and 'Termine' with its final e-acute
EnCours == Str(<<"E", "n", " ", "c", "o", "u", "r", "s">>)
Termine == Str(<<"T", "e", "r", "m", "i", "n", eAcute>>)
TaskStatus == {EnCours, Termine}

-----------------------------------------------------------------------------
(* Strings *)

\* String.prototype.includes
Includes(hay, needle) ==
    \E i \in 0..(Len(hay) - Len(needle)) :
        \A j \in 1..Len(needle) : hay[i + j] = needle[j]

\* one character of String.prototype.toLowerCase
LowerChar(c) ==
    CASE c = "A" -> "a" [] c = "C" -> "c" [] c = "E" -> "e" [] c = "I" -> "i"
      [] c = "L" -> "l" [] c = "M" -> "m" [] c = "N" -> "n" [] c = "R" -> "r"
      [] c = "T" -> "t" [] c = EAcute -> eAcute
      [] OTHER -> c

toLowerCase(str) == [i \in 1..Len(str) |-> LowerChar(str[i])]

\* normalize('NFD') followed by the removal of the combining marks
\* U+0300..U+036F, on one character: an accented letter is decomposed and
\* its mark removed
StripChar(c) ==
    CASE c = eAcute -> "e" [] c = EAcute -> "E" [] OTHER -> c

stripDiacritics(str) == [i \in 1..Len(str) |-> StripChar(str[i])]

RECURSIVE trimLeft(_)
trimLeft(str) ==
    IF str # <<>> /\ Head(str) = " " THEN trimLeft(Tail(str)) ELSE str

RECURSIVE trimRight(_)
trimRight(str) ==
    IF str # <<>> /\ str[Len(str)] = " "
    THEN trimRight(SubSeq(str, 1, Len(str) - 1))
    ELSE str

\* the text left as typed, with its white space
trim_Untrimmed(str) == str

\* String.prototype.trim
trim(str) == trimRight(trimLeft(str))

Digits == {"0", "1", "2", "3", "4", "5", "6", "7", "8", "9"}

\* /^\d+$/.test(str)
AllDigits(str) == str # <<>> /\ \A i \in 1..Len(str) : str[i] \in Digits

DigitVal(c) ==
    CASE c = "0" -> 0 [] c = "1" -> 1 [] c = "2" -> 2 [] c = "3" -> 3
      [] c = "4" -> 4 [] c = "5" -> 5 [] c = "6" -> 6 [] c = "7" -> 7
      [] c = "8" -> 8 [] c = "9" -> 9

DigitChar(n) ==
    <<"0", "1", "2", "3", "4", "5", "6", "7", "8", "9">>[n + 1]

\* the number a text of two or four digits writes
NumVal(str) ==
    IF Len(str) = 2 THEN 10 * DigitVal(str[1]) + DigitVal(str[2])
    ELSE 1000 * DigitVal(str[1]) + 100 * DigitVal(str[2])
         + 10 * DigitVal(str[3]) + DigitVal(str[4])

\* String(n) for n >= 0
RECURSIVE NumStr(_)
NumStr(n) ==
    IF n < 10 THEN <<DigitChar(n)>>
    ELSE NumStr(n \div 10) \o <<DigitChar(n % 10)>>

\* String(n).padStart(2, '0')
Pad2(n) == IF n < 10 THEN <<"0">> \o NumStr(n) ELSE NumStr(n)

-----------------------------------------------------------------------------
(* The statements App issues, and what sql.includes answers on them *)

SQL_SELECT == "SELECT * FROM tasks"
SQL_INSERT ==
    "INSERT INTO tasks (title, description, status, deadline) VALUES (?, ?, ?, ?)"
SQL_DELETE == "DELETE FROM tasks WHERE id = ?"
SQL_SET_STATUS == "UPDATE tasks SET status = ? WHERE id = ?"
SQL_SET_DEADLINE == "UPDATE tasks SET deadline = ? WHERE id = ?"

Mutations == {SQL_INSERT, SQL_DELETE, SQL_SET_STATUS, SQL_SET_DEADLINE}

\* sql.includes(keyword) for the statements above
SqlIncludes(stmt, keyword) ==
    CASE keyword = "INSERT" -> stmt = SQL_INSERT
      [] keyword = "UPDATE" -> stmt \in {SQL_SET_STATUS, SQL_SET_DEADLINE}
      [] keyword = "SET status" -> stmt = SQL_SET_STATUS
      [] keyword = "SET deadline" -> stmt = SQL_SET_DEADLINE
      [] keyword = "DELETE" -> stmt = SQL_DELETE
      [] OTHER -> FALSE

-----------------------------------------------------------------------------
(* Key-value backend: webDatabase over AsyncStorage *)

\* AsyncStorage holds no entry under STORAGE_KEY
NoItem == [json |-> FALSE, val |-> <<>>]

\* JSON.stringify / JSON.parse of an array of tasks whose fields are numbers
\* and strings: the document holds the same array
JSONStringify(ts) == [json |-> TRUE, val |-> ts]
JSONParse(item) == item.val

\* webDatabase.getAllAsync and webDatabaseUtils.getAllTasks
WebGetAll(item) == IF item.json THEN JSONParse(item) ELSE <<>>

\* tasks.findIndex(t => t.id === id), 1-based; 0 stands for -1
FindIndex(ts, id) ==
    IF \E i \in 1..Len(ts) : ts[i].id = id
    THEN CHOOSE i \in 1..Len(ts) :
            ts[i].id = id /\ \A j \in 1..(i - 1) : ts[j].id # id
    ELSE 0

\* tasks.splice(index, 1)
Splice(ts, index) ==
    SubSeq(ts, 1, index - 1) \o SubSeq(ts, index + 1, Len(ts))

\* the INSERT branch's newTask
WebNewTask(now, params) ==
    [id |-> now,
     title |-> params[1],
     description |-> params[2],
     status |-> OrElse(params[3], EnCours),
     deadline |-> OrElse(params[4], Str(<<>>))]

\* the array after the branch of runAsync that matches the statement
WebApply(ts, now, stmt, params) ==
    IF SqlIncludes(stmt, "INSERT") THEN
        Append(ts, WebNewTask(now, params))
    ELSE IF SqlIncludes(stmt, "UPDATE") THEN
        IF SqlIncludes(stmt, "SET status") THEN
            LET i == FindIndex(ts, params[2]) IN
            IF i # 0 THEN [ts EXCEPT ![i].status = params[1]] ELSE ts
        ELSE IF SqlIncludes(stmt, "SET deadline") THEN
            LET i == FindIndex(ts, params[2]) IN
            IF i # 0 THEN [ts EXCEPT ![i].deadline = params[1]] ELSE ts
        ELSE ts
    ELSE IF SqlIncludes(stmt, "DELETE") THEN
        LET index == FindIndex(ts, params[1]) IN
        IF index # 0 THEN Splice(ts, index) ELSE ts
    ELSE ts

\* webDatabase.runAsync: load the whole array, change it, write it back.
\* fault: AsyncStorage rejects the read or the write, and nothing is stored.
WebRunAsync(item, now, stmt, params, fault) ==
    IF fault THEN
        [failed |-> TRUE, threw |-> TRUE, store |-> item, rowsAffected |-> 0,
         insertId |-> 0, changes |-> 0, lastInsertRowId |-> 0]
    ELSE
        [failed |-> FALSE, threw |-> FALSE,
         store |-> JSONStringify(WebApply(WebGetAll(item), now, stmt, params)),
         rowsAffected |-> 1,
         insertId |-> IF SqlIncludes(stmt, "INSERT") THEN now ELSE 1,
         changes |-> 0, lastInsertRowId |-> 0]

-----------------------------------------------------------------------------
(* Relational backend: expo-sqlite *)

LegacyColumns == <<"id", "title", "description", "status">>
TaskColumns == <<"id", "title", "description", "status", "deadline">>

HasColumn(E, name) == \E i \in 1..Len(E.cols) : E.cols[i] = name

\* CREATE TABLE IF NOT EXISTS tasks (...): E.cols = <<>> is "no such table"
CreateTableIfNotExists(E) ==
    IF E.cols = <<>> THEN [E EXCEPT !.cols = TaskColumns] ELSE E

\* getFirstAsync('SELECT name FROM pragma_table_info(..) WHERE name = ?',
\* ['deadline']): the first matching row, or null when none matches
PragmaDeadlineRow(E) ==
    IF HasColumn(E, "deadline") THEN Str(<<"deadline">>) ELSE JNull

\* ALTER TABLE tasks ADD COLUMN deadline TEXT: fails on a duplicate column
\* name; the rows already stored read NULL in the new column
AlterAddDeadline(E) ==
    IF HasColumn(E, "deadline") THEN [ok |-> FALSE, sql |-> E]
    ELSE [ok |-> TRUE,
          sql |-> [E EXCEPT
                     !.cols = Append(E.cols, "deadline"),
                     !.rows = [i \in 1..Len(E.rows) |->
                                 [E.rows[i] EXCEPT !.deadline = JNull]]]]

\* setupNativeDatabase up to its return statement.
\* openFault: openDatabaseAsync rejects; pragmaFault: getFirstAsync rejects.
SetupNativeDatabase(E, openFault, pragmaFault) ==
    IF openFault THEN [threw |-> TRUE, sql |-> E]
    ELSE
        LET E1 == CreateTableIfNotExists(E) IN
        IF pragmaFault
        THEN LET a == AlterAddDeadline(E1) IN
             [threw |-> ~a.ok, sql |-> a.sql]
        ELSE [threw |-> FALSE, sql |-> E1]

\* rows matching WHERE id = ?
Matching(E, id) == {i \in 1..Len(E.rows) : E.rows[i].id = id}

RECURSIVE DeleteRows(_, _)
DeleteRows(rows, id) ==
    IF rows = <<>> THEN <<>>
    ELSE IF Head(rows).id = id THEN DeleteRows(Tail(rows), id)
    ELSE <<Head(rows)>> \o DeleteRows(Tail(rows), id)

\* db.runAsync(sql, params) of the engine: ok is FALSE when the statement
\* fails to prepare (a column it names is missing), changes and
\* lastInsertRowId are sqlite3_changes and sqlite3_last_insert_rowid
EngineRun(E, stmt, params) ==
    IF stmt = SQL_INSERT THEN
        IF ~HasColumn(E, "deadline") THEN [ok |-> FALSE, sql |-> E, changes |-> 0]
        ELSE
            LET row == [id |-> E.seq + 1, title |-> params[1],
                        description |-> params[2], status |-> params[3],
                        deadline |-> params[4]]
            IN [ok |-> TRUE,
                sql |-> [E EXCEPT !.rows = Append(E.rows, row),
                                  !.seq = E.seq + 1,
                                  !.lastId = E.seq + 1],
                changes |-> 1]
    ELSE IF stmt = SQL_SET_STATUS THEN
        [ok |-> TRUE,
         sql |-> [E EXCEPT !.rows = [i \in 1..Len(E.rows) |->
                     IF E.rows[i].id = params[2]
                     THEN [E.rows[i] EXCEPT !.status = params[1]]
                     ELSE E.rows[i]]],
         changes |-> Cardinality(Matching(E, params[2]))]
    ELSE IF stmt = SQL_SET_DEADLINE THEN
        IF ~HasColumn(E, "deadline") THEN [ok |-> FALSE, sql |-> E, changes |-> 0]
        ELSE
            [ok |-> TRUE,
             sql |-> [E EXCEPT !.rows = [i \in 1..Len(E.rows) |->
                         IF E.rows[i].id = params[2]
                         THEN [E.rows[i] EXCEPT !.deadline = params[1]]
                         ELSE E.rows[i]]],
             changes |-> Cardinality(Matching(E, params[2]))]
    ELSE IF stmt = SQL_DELETE THEN
        [ok |-> TRUE,
         sql |-> [E EXCEPT !.rows = DeleteRows(E.rows, params[1])],
         changes |-> Cardinality(Matching(E, params[1]))]
    ELSE [ok |-> FALSE, sql |-> E, changes |-> 0]

\* result.changes is a number (SQLiteRunResult.changes); a number has no
\* length property, so result.changes?.length is undefined
LengthOfNumber(n) == JUndef

\* result.changes?.length || 0
RowsAffected(changes) ==
    LET len == LengthOfNumber(changes) IN
    IF len = JUndef THEN 0 ELSE len

\* result.lastInsertRowId as number || 0
InsertId(lastInsertRowId) ==
    IF lastInsertRowId = 0 THEN 0 ELSE lastInsertRowId

\* a runAsync that logs the engine's rejection and returns
NativeRunAsync_Swallowed(E, stmt, params, fault) ==
    LET result == EngineRun(E, stmt, params) IN
    IF fault \/ ~result.ok THEN
        [failed |-> TRUE, threw |-> FALSE, store |-> E, rowsAffected |-> 0,
         insertId |-> 0, changes |-> 0, lastInsertRowId |-> 0]
    ELSE
        [failed |-> FALSE, threw |-> FALSE, store |-> result.sql,
         rowsAffected |-> RowsAffected(result.changes),
         insertId |-> InsertId(result.sql.lastId),
         changes |-> result.changes,
         lastInsertRowId |-> result.sql.lastId]

\* the runAsync of the object setupNativeDatabase returns: the engine's
\* result reshaped, a rejection logged and thrown again (failed: the engine
\* rejected; threw: runAsync rejects).
\* fault: the engine rejects (I/O error, disk full), and nothing is stored.
NativeRunAsync(E, stmt, params, fault) ==
    LET result == EngineRun(E, stmt, params) IN
    IF fault \/ ~result.ok THEN
        [failed |-> TRUE, threw |-> TRUE, store |-> E, rowsAffected |-> 0,
         insertId |-> 0, changes |-> 0, lastInsertRowId |-> 0]
    ELSE
        [failed |-> FALSE, threw |-> FALSE, store |-> result.sql,
         rowsAffected |-> RowsAffected(result.changes),
         insertId |-> InsertId(result.sql.lastId),
         changes |-> result.changes,
         lastInsertRowId |-> result.sql.lastId]

\* the getAllAsync of the object setupNativeDatabase returns: a failure is
\* logged and answered with []
NativeGetAll(E, fault) == IF fault THEN <<>> ELSE E.rows

-----------------------------------------------------------------------------
(* Inputs *)

Lait == Str(<<"L", "a", "i", "t">>)
Terminer == Str(<<"T", "e", "r", "m", "i", "n", "e", "r">>)
Titles == {Lait, Terminer}
Descriptions == {Str(<<>>)}

D_2024_01_05 == Str(<<"2", "0", "2", "4", "-", "0", "1", "-", "0", "5">>)
D_2024_03_01 == Str(<<"2", "0", "2", "4", "-", "0", "3", "-", "0", "1">>)
NotADate == Str(<<"n", "o", "t", "-", "a", "-", "d", "a", "t", "e">>)

\* what addTask receives: TaskForm passes the status 'En cours' and no
\* deadline, the signature of addTask allows a deadline
NewTasks ==
    [title : Titles, description : Descriptions, status : {EnCours},
     deadline : {JUndef, D_2024_01_05}]

\* what promptForDate resolves to when the handler goes on (a non-empty text)
PromptedDates == {D_2024_03_01, NotADate}

NoTask == [title |-> JUndef, description |-> JUndef, status |-> JUndef,
           deadline |-> JUndef]

-----------------------------------------------------------------------------
(* App *)

\* the collection the chosen backend holds
Stored == IF platform = "web" THEN WebGetAll(kv) ELSE sql.rows

Ids(ts) == {ts[i].id : i \in 1..Len(ts)}

NoSql == [cols |-> <<>>, rows |-> <<>>, seq |-> 0, lastId |-> 0]

\* a row written by the version of the application that had no deadline
LegacyRow == [id |-> 1, title |-> Lait, description |-> Str(<<>>),
              status |-> EnCours, deadline |-> JUndef]

\* tasks.db as the application can find it at start: absent, created by a
\* version without the deadline column (empty or holding a row), or current
InitialDatabases ==
    {NoSql,
     [NoSql EXCEPT !.cols = LegacyColumns],
     [NoSql EXCEPT !.cols = LegacyColumns, !.rows = <<LegacyRow>>, !.seq = 1],
     [NoSql EXCEPT !.cols = TaskColumns]}

NoLast ==
    [op |-> "none", had |-> FALSE, task |-> NoTask, id |-> 0, value |-> JUndef,
     pre |-> <<>>, preTasks |-> <<>>, failed |-> FALSE, threw |-> FALSE,
     reloaded |-> FALSE,
     reloadFault |-> FALSE, rowsAffected |-> 0, insertId |-> 0,
     changes |-> 0, lastInsertRowId |-> 0, preCols |-> <<>>]

DualIdle == [webIds |-> <<>>, natIds |-> <<>>, n |-> 0]
ViewIdle ==
    [tasks |-> <<>>, searchQuery |-> <<>>, sortBy |-> "status",
     sortOrder |-> "asc", filteredTasks |-> <<>>, sortedTasks |-> <<>>]

Init ==
    /\ platform \in {"web", "native"}
    /\ kv = NoItem
    /\ sql \in (IF platform = "native" THEN InitialDatabases ELSE {NoSql})
    /\ clock = 1
    /\ db = "null"
    /\ tasks = <<>>
    /\ booted = FALSE
    /\ nOps = 0
    /\ last = NoLast
    /\ dual = DualIdle
    /\ view = ViewIdle
    /\ calls = <<>>

\* openDatabase on the web: read the collection, seed '[]' when it is empty
WebOpen(item, fault) ==
    IF fault THEN [threw |-> TRUE, store |-> item]
    ELSE [threw |-> FALSE,
          store |-> IF Len(WebGetAll(item)) = 0 THEN JSONStringify(<<>>)
                    ELSE item]

\* the effect App runs once on mount: openDatabase, setDb, select all,
\* setTasks; any rejection ends in setTasks([])
Boot ==
    /\ ~booted
    /\ booted' = TRUE
    /\ \E openFault \in BOOLEAN, pragmaFault \in BOOLEAN, queryFault \in BOOLEAN :
        LET o == IF platform = "web" THEN WebOpen(kv, openFault)
                 ELSE SetupNativeDatabase(sql, openFault, pragmaFault)
        IN
        /\ kv' = IF platform = "web" THEN o.store ELSE kv
        /\ sql' = IF platform = "native" THEN o.sql ELSE sql
        /\ db' = IF o.threw THEN "null" ELSE platform
        /\ tasks' =
             IF o.threw THEN <<>>
             ELSE IF platform = "web"
                  THEN (IF queryFault THEN <<>> ELSE WebGetAll(kv'))
                  ELSE NativeGetAll(sql', queryFault)
        /\ last' = [NoLast EXCEPT !.op = "boot", !.had = ~o.threw,
                                  !.failed = o.threw,
                                  !.threw = o.threw,
                                  !.reloaded = ~o.threw,
                                  !.reloadFault = ~o.threw /\ queryFault,
                                  !.preCols = sql.cols]
    /\ UNCHANGED <<platform, clock, nOps, dual, view, calls>>

\* db.runAsync of the handle App holds
RunAsync(stmt, params, fault) ==
    IF db = "web" THEN WebRunAsync(kv, clock, stmt, params, fault)
    ELSE NativeRunAsync(sql, stmt, params, fault)

\* the handlers without the test of db: they call the backend of the platform
Handle_Unguarded(stmt, params, mutateFault, queryFault, rec) ==
    /\ nOps < MaxOps
    /\ nOps' = nOps + 1
    /\ LET r == IF platform = "web"
                THEN WebRunAsync(kv, clock, stmt, params, mutateFault)
                ELSE NativeRunAsync(sql, stmt, params, mutateFault)
       IN
       /\ kv' = IF platform = "web" THEN r.store ELSE kv
       /\ sql' = IF platform = "native" THEN r.store ELSE sql
       /\ tasks' =
            IF r.threw THEN tasks
            ELSE IF platform = "web"
                 THEN (IF queryFault THEN tasks ELSE WebGetAll(kv'))
                 ELSE NativeGetAll(sql', queryFault)
       /\ last' = [rec EXCEPT !.op = stmt, !.had = TRUE,
                              !.pre = Stored, !.preTasks = tasks,
                              !.failed = r.failed,
                              !.threw = r.threw,
                              !.reloaded = ~r.threw,
                              !.reloadFault = ~r.threw /\ queryFault,
                              !.rowsAffected = r.rowsAffected,
                              !.insertId = r.insertId,
                              !.changes = r.changes,
                              !.lastInsertRowId = r.lastInsertRowId]
    /\ UNCHANGED <<platform, clock, db, booted, dual, view, calls>>

\* the body shared by addTask, deleteTask, updateTaskStatus and
\* updateTaskDeadline: return when db is unset; else runAsync, then
\* getAllAsync, then setTasks; a rejection is logged and nothing else is done
Handle(stmt, params, mutateFault, queryFault, rec) ==
    /\ nOps < MaxOps
    /\ nOps' = nOps + 1
    /\ IF db = "null" THEN
           /\ last' = [rec EXCEPT !.op = stmt, !.had = FALSE,
                                  !.pre = Stored, !.preTasks = tasks]
           /\ UNCHANGED <<kv, sql, tasks>>
       ELSE
           LET r == RunAsync(stmt, params, mutateFault) IN
           /\ kv' = IF db = "web" THEN r.store ELSE kv
           /\ sql' = IF db = "native" THEN r.store ELSE sql
           /\ tasks' =
                IF r.threw THEN tasks
                ELSE IF db = "web"
                     THEN (IF queryFault THEN tasks ELSE WebGetAll(kv'))
                     ELSE NativeGetAll(sql', queryFault)
           /\ last' = [rec EXCEPT !.op = stmt, !.had = TRUE,
                                  !.pre = Stored, !.preTasks = tasks,
                                  !.failed = r.failed,
                                  !.threw = r.threw,
                                  !.reloaded = ~r.threw,
                                  !.reloadFault = ~r.threw /\ queryFault,
                                  !.rowsAffected = r.rowsAffected,
                                  !.insertId = r.insertId,
                                  !.changes = r.changes,
                                  !.lastInsertRowId = r.lastInsertRowId]
    /\ UNCHANGED <<platform, clock, db, booted, dual, view, calls>>

\* the parameters without the deadline
AddParams_NoDeadline(task) ==
    <<task.title, task.description, OrElse(task.status, EnCours), JNull>>

\* the parameters addTask binds
AddParams(task) ==
    <<task.title, task.description, OrElse(task.status, EnCours),
      OrElse(task.deadline, JNull)>>

addTask ==
    \E task \in NewTasks, mutateFault \in BOOLEAN, queryFault \in BOOLEAN :
        Handle(SQL_INSERT, AddParams(task), mutateFault, queryFault,
               [NoLast EXCEPT !.task = task])

\* the ids the handlers can be called with: those of the rendered tasks, and
\* one that no task has
KnownIds == Ids(tasks) \cup {0}

deleteTask ==
    \E id \in KnownIds, mutateFault \in BOOLEAN, queryFault \in BOOLEAN :
        Handle(SQL_DELETE, <<id>>, mutateFault, queryFault,
               [NoLast EXCEPT !.id = id])

updateTaskStatus ==
    \E id \in KnownIds, newStatus \in TaskStatus,
       mutateFault \in BOOLEAN, queryFault \in BOOLEAN :
        Handle(SQL_SET_STATUS, <<newStatus, id>>, mutateFault, queryFault,
               [NoLast EXCEPT !.id = id, !.value = newStatus])

updateTaskDeadline ==
    \E id \in KnownIds, deadline \in PromptedDates,
       mutateFault \in BOOLEAN, queryFault \in BOOLEAN :
        Handle(SQL_SET_DEADLINE, <<deadline, id>>, mutateFault, queryFault,
               [NoLast EXCEPT !.id = id, !.value = deadline])

\* the wall clock advances between two calls of Date.now()
Tick ==
    /\ clock <= MaxTicks
    /\ clock' = clock + 1
    /\ UNCHANGED <<platform, kv, sql, db, tasks, booted, nOps, last, dual, view,
                   calls>>

Next ==
    \/ Boot
    \/ addTask
    \/ deleteTask
    \/ updateTaskStatus
    \/ updateTaskDeadline
    \/ Tick

Spec == Init /\ [][Next]_vars

-----------------------------------------------------------------------------
(* Properties of the stored collection and of the user actions *)

\* a deadline that is not set, whichever falsy value stands for it
DeadlineOf(t) == OrElse(t.deadline, JNull)

\* t has the title, description, status and deadline of the task T given to
\* addTask
SameAsT(t, T) ==
    /\ t.title = T.title
    /\ t.description = T.description
    /\ t.status = T.status
    /\ DeadlineOf(t) = DeadlineOf(T)

\* the last handler ran its mutation and its reload, and neither failed
Completed(stmt) ==
    /\ last.op = stmt
    /\ last.had
    /\ ~last.threw
    /\ last.reloaded
    /\ ~last.reloadFault

Count(ts, P(_)) == Cardinality({i \in 1..Len(ts) : P(ts[i])})

\* C2 as stated: after add(T) and the reload, exactly one task of the
\* reloaded collection has T's title, description, status and deadline, and
\* every task stored before the add is still there unchanged.
C2_ExactlyOneEqualToT ==
    Completed(SQL_INSERT) =>
        /\ LET IsT(t) == SameAsT(t, last.task) IN Count(tasks, IsT) = 1
        /\ Len(tasks) >= Len(last.pre)
        /\ SubSeq(tasks, 1, Len(last.pre)) = last.pre

\* C2 amended: after add(T) and the reload, the reloaded collection is the
\* collection stored before the add followed by one new task that has T's
\* title, description, status and deadline: exactly one more task equal to T
\* than before (exactly one when none was stored before).
C2_RoundTrip ==
    Completed(SQL_INSERT) =>
        /\ Len(tasks) = Len(last.pre) + 1
        /\ SubSeq(tasks, 1, Len(last.pre)) = last.pre
        /\ SameAsT(tasks[Len(tasks)], last.task)
        /\ LET IsT(t) == SameAsT(t, last.task) IN
           Count(tasks, IsT) = Count(last.pre, IsT) + 1

\* an add of a task equal to one already stored has completed
C2_Witness ==
    /\ Completed(SQL_INSERT)
    /\ Len(tasks) = 2
    /\ SameAsT(tasks[1], last.task)
    /\ SameAsT(tasks[2], last.task)

\* C3: in every reachable state no two tasks of the stored collection have
\* the same id, on the key-value backend too, whatever the clock values the
\* inserts were issued at.
C3_UniqueIds ==
    \A i, j \in 1..Len(Stored) : i # j => Stored[i].id # Stored[j].id

\* C4: after setStatus(id, s) with the id of an inserted task and the reload,
\* exactly one task has that id, its status is s and its other fields are
\* unchanged, every other task is unchanged and the number of tasks is
\* unchanged.
C4_SetStatusFrame ==
    (Completed(SQL_SET_STATUS) /\ last.id \in Ids(last.pre)) =>
        /\ Len(tasks) = Len(last.pre)
        /\ LET HasId(t) == t.id = last.id IN Count(tasks, HasId) = 1
        /\ \A i \in 1..Len(last.pre) :
             IF last.pre[i].id = last.id
             THEN tasks[i] = [last.pre[i] EXCEPT !.status = last.value]
             ELSE tasks[i] = last.pre[i]

\* C8: after every open of the relational backend that returned, whatever
\* the schema was before, the tasks table has exactly one deadline column.
C8_DeadlineColumnAfterOpen ==
    (platform = "native" /\ db = "native") =>
        Cardinality({i \in 1..Len(sql.cols) : sql.cols[i] = "deadline"}) = 1

\* C9: on the relational backend a failed mutate is thrown to the caller and
\* a failed query answers []; when the mutate of a user action fails, no
\* reload is issued and the in-memory task list is what it was before.
C9_FailedMutate ==
    (last.op \in Mutations /\ last.had) =>
        /\ (platform = "native" /\ last.failed) => last.threw
        /\ (platform = "native" /\ last.reloaded /\ last.reloadFault) =>
               tasks = <<>>
        /\ last.threw => (~last.reloaded /\ tasks = last.preTasks)

\* a mutate failed on the relational backend while tasks were displayed
C9_Witness ==
    /\ platform = "native"
    /\ last.op \in Mutations
    /\ last.had
    /\ last.failed
    /\ Len(tasks) > 0

\* C10: on the relational backend rowsAffected is the engine's change count
\* of the statement and insertId the engine's last inserted row id.
C10_ResultShape ==
    (platform = "native" /\ last.op \in Mutations /\ last.had /\ ~last.threw) =>
        /\ last.rowsAffected = last.changes
        /\ last.insertId = last.lastInsertRowId

-----------------------------------------------------------------------------
(* Both backends driven by the same calls, from an empty store.  The k-th   *)
(* created task is addressed on each backend by the id that backend gave    *)
(* it.                                                                      *)

InitDual ==
    /\ platform = "both"
    /\ kv = JSONStringify(<<>>)
    /\ sql = [NoSql EXCEPT !.cols = TaskColumns]
    /\ clock = 1
    /\ db = "null"
    /\ tasks = <<>>
    /\ booted = FALSE
    /\ nOps = 0
    /\ last = NoLast
    /\ dual = DualIdle
    /\ view = ViewIdle
    /\ calls = <<>>

\* the same runAsync call on the two backends; ids gives each backend's id
\* of the task the call is about
DualRun(stmt, webParams, natParams) ==
    LET w == WebRunAsync(kv, clock, stmt, webParams, FALSE)
        n == NativeRunAsync(sql, stmt, natParams, FALSE)
    IN
    /\ dual.n < MaxDualOps
    /\ kv' = w.store
    /\ sql' = n.store
    /\ dual' = IF stmt = SQL_INSERT
               THEN [webIds |-> Append(dual.webIds, w.insertId),
                     natIds |-> Append(dual.natIds, n.insertId),
                     n |-> dual.n + 1]
               ELSE [dual EXCEPT !.n = dual.n + 1]
    /\ UNCHANGED <<platform, clock, db, tasks, booted, nOps, last, view, calls>>

DualAdd ==
    \E task \in NewTasks :
        DualRun(SQL_INSERT, AddParams(task), AddParams(task))

DualDelete ==
    \E k \in 1..Len(dual.webIds) :
        DualRun(SQL_DELETE, <<dual.webIds[k]>>, <<dual.natIds[k]>>)

DualSetStatus ==
    \E k \in 1..Len(dual.webIds), newStatus \in TaskStatus :
        DualRun(SQL_SET_STATUS, <<newStatus, dual.webIds[k]>>,
                <<newStatus, dual.natIds[k]>>)

DualSetDeadline ==
    \E k \in 1..Len(dual.webIds), deadline \in PromptedDates :
        DualRun(SQL_SET_DEADLINE, <<deadline, dual.webIds[k]>>,
                <<deadline, dual.natIds[k]>>)

NextDual ==
    \/ DualAdd
    \/ DualDelete
    \/ DualSetStatus
    \/ DualSetDeadline
    \/ Tick

SpecDual == InitDual /\ [][NextDual]_vars

\* a task without its id
Fields(t) ==
    [title |-> t.title, description |-> t.description, status |-> t.status,
     deadline |-> DeadlineOf(t)]

FieldsOf(ts) == {Fields(ts[i]) : i \in 1..Len(ts)}

\* C1: after every sequence of add, setStatus, setDeadline and delete calls
\* from an empty store, the relational and the key-value backend hold the
\* same set of tasks (title, description, status, deadline).
C1_BackendsConverge == FieldsOf(WebGetAll(kv)) = FieldsOf(sql.rows)

-----------------------------------------------------------------------------
(* Dates *)

\* JavaScript numbers as the sort meets them
Num(n) == [k |-> "num", n |-> n]
Infinity == [k |-> "inf", n |-> 1]
NegInfinity == [k |-> "inf", n |-> -1]
NaN == [k |-> "nan", n |-> 0]

InvalidDate == [valid |-> FALSE, y |-> 0, m |-> 0, d |-> 0]

\* the text has the form YYYY-MM-DD
IsIsoDate(str) ==
    /\ Len(str) = 10
    /\ str[5] = "-"
    /\ str[8] = "-"
    /\ \A i \in {1, 2, 3, 4, 6, 7, 9, 10} : str[i] \in Digits

DaysInMonth(y, m) ==
    IF m = 2
    THEN (IF y % 4 = 0 /\ (y % 100 # 0 \/ y % 400 = 0) THEN 29 ELSE 28)
    ELSE IF m \in {4, 6, 9, 11} THEN 30 ELSE 31

\* new Date(text) on a date-only ISO text (read as midnight UTC) and on a
\* text that is no date; other formats the engine parses are not modelled
NewDate(str) ==
    IF ~IsIsoDate(str) THEN InvalidDate
    ELSE
        LET y == NumVal(<<str[1], str[2], str[3], str[4]>>)
            m == NumVal(<<str[6], str[7]>>)
            d == NumVal(<<str[9], str[10]>>)
        IN IF m \in 1..12 /\ d \in 1..DaysInMonth(y, m)
           THEN [valid |-> TRUE, y |-> y, m |-> m, d |-> d]
           ELSE InvalidDate

\* date.getTime(): NaN for an invalid date; for a valid one a number that
\* grows with the date (days, where the engine counts milliseconds)
getTime(date) ==
    IF date.valid
    THEN Num((date.y * 12 + (date.m - 1)) * 31 + (date.d - 1))
    ELSE NaN

\* isNaN(date.getTime())
IsInvalid(date) == getTime(date) = NaN

\* the calendar date getDate, getMonth and getFullYear read: midnight UTC
\* seen from the device's time zone, taken at or ahead of UTC (that of the
\* fr-FR locale the component formats for), where it is the date written
LocalDate(date) == date

\* date.toISOString().split('T')[0]
IsoDate(date) ==
    NumStr(date.y) \o <<"-">> \o Pad2(date.m) \o <<"-">> \o Pad2(date.d)

-----------------------------------------------------------------------------
(* TaskList: the tasks and the search texts of the model *)

ViewDeadlines == {JNull, D_2024_01_05, D_2024_03_01, NotADate}

\* the tasks of the model: every status with every deadline under one title,
\* and a task in progress under a title that holds the text 'termine'
ViewTasks ==
    [title : {Lait}, description : Descriptions, status : TaskStatus,
     deadline : ViewDeadlines]
    \cup
    [title : {Terminer}, description : Descriptions,
     status : {EnCours}, deadline : {JNull}]

\* the task lists of up to MaxViewTasks tasks, ids in the order of the list
ViewLists ==
    UNION {
        {[i \in 1..n |->
            [id |-> i, title |-> f[i].title, description |-> f[i].description,
             status |-> f[i].status, deadline |-> f[i].deadline]] :
         f \in [1..n -> ViewTasks]} : n \in 0..MaxViewTasks}

Queries ==
    {<<>>,
     <<" ">>,
     <<"t", "e", "r", "m", "i", "n", eAcute>>,
     <<"T", "E", "R", "M", "I", "N", EAcute>>,
     <<" ", "T", "e", "r", "m", "i", "n", "e">>,
     <<"0", "5">>,
     <<"2", "0", "2", "4", "-", "0", "1">>}

-----------------------------------------------------------------------------
(* TaskList: filteredTasks *)

\* the status lower-cased but left with its accents
NormalizedStatus_Accented(task) == toLowerCase(task.status.s)

\* task.status.toLowerCase().normalize('NFD').replace(marks, '')
NormalizedStatus(task) == stripDiacritics(toLowerCase(task.status.s))

\* trimmedQuery.toLowerCase().normalize('NFD').replace(marks, '')
NormalizedQuery(searchQuery) == stripDiacritics(toLowerCase(trim(searchQuery)))

\* the branch for an all-digit query: day, month and year of the deadline
DigitMatch(task, normalizedQuery) ==
    IF Truthy(task.deadline) THEN
        LET date == NewDate(task.deadline.s) IN
        IF IsInvalid(date) THEN FALSE
        ELSE
            LET local == LocalDate(date)
                day == Pad2(local.d)
                month == Pad2(local.m)
                year == NumStr(local.y)
            IN \/ Includes(day, normalizedQuery)
               \/ Includes(month, normalizedQuery)
               \/ Includes(year, normalizedQuery)
    ELSE FALSE

\* the branch for the other queries.  Its try block reads the identifier
\* query in formattedDate.includes(query), the first statement that uses the
\* search text; no binding of that name is in scope (the component binds
\* searchQuery, trimmedQuery and normalizedQuery), the read throws a
\* ReferenceError and the catch clause answers false.
FormattedMatch(task, normalizedQuery) ==
    IF Truthy(task.deadline) THEN FALSE ELSE FALSE

\* the callback of tasks.filter
Matches(task, normalizedQuery) ==
    IF Includes(NormalizedStatus(task), normalizedQuery) THEN TRUE
    ELSE IF \/ Includes(toLowerCase(task.title.s), normalizedQuery)
            \/ Includes(toLowerCase(task.description.s), normalizedQuery)
    THEN TRUE
    ELSE IF AllDigits(normalizedQuery)
    THEN DigitMatch(task, normalizedQuery)
    ELSE FormattedMatch(task, normalizedQuery)

\* tasks.filter(callback)
RECURSIVE Filter(_, _)
Filter(ts, normalizedQuery) ==
    IF ts = <<>> THEN <<>>
    ELSE (IF Matches(Head(ts), normalizedQuery)
          THEN <<Head(ts)>> ELSE <<>>)
         \o Filter(Tail(ts), normalizedQuery)

\* the filteredTasks memo
filteredTasks(ts, searchQuery) ==
    IF trim(searchQuery) = <<>> THEN ts
    ELSE LET normalizedQuery == NormalizedQuery(searchQuery) IN
         Filter(ts, normalizedQuery)

-----------------------------------------------------------------------------
(* TaskList: sortedTasks *)

\* x - y on JavaScript numbers
Minus(x, y) ==
    IF x.k = "nan" \/ y.k = "nan" THEN NaN
    ELSE IF x.k = "inf" /\ y.k = "inf"
         THEN (IF x.n = y.n THEN NaN ELSE x)
    ELSE IF x.k = "inf" THEN x
    ELSE IF y.k = "inf" THEN (IF y.n = 1 THEN NegInfinity ELSE Infinity)
    ELSE Num(x.n - y.n)

\* a.status.localeCompare(b.status) on the two status values: 'En cours'
\* collates before 'Termine'
localeCompare(a, b) ==
    IF a = b THEN Num(0) ELSE IF a = EnCours THEN Num(-1) ELSE Num(1)

\* a.deadline ? new Date(a.deadline).getTime() : Infinity
DeadlineKey(task) ==
    IF Truthy(task.deadline) THEN getTime(NewDate(task.deadline.s))
    ELSE Infinity

\* the comparator given to sort
Comparator(a, b, sortBy, sortOrder) ==
    IF sortBy = "status" THEN
        IF sortOrder = "asc" THEN localeCompare(a.status, b.status)
        ELSE localeCompare(b.status, a.status)
    ELSE
        LET dateA == DeadlineKey(a)
            dateB == DeadlineKey(b)
        IN IF sortOrder = "asc" THEN Minus(dateA, dateB)
           ELSE Minus(dateB, dateA)

\* how Array.prototype.sort reads the comparator's answer: NaN is +0
Sign(v) ==
    IF v.k = "nan" THEN 0
    ELSE IF v.n < 0 THEN -1 ELSE IF v.n > 0 THEN 1 ELSE 0

Cmp(a, b, sortBy, sortOrder) == Sign(Comparator(a, b, sortBy, sortOrder))

\* the comparator is a consistent comparator for the elements compared in
\* the matrix c (ECMAScript, Array.prototype.sort)
Consistent(c, I) ==
    /\ \A i, j \in I : c[i][j] = -c[j][i]
    /\ \A i, j, k \in I : (c[i][j] = 0 /\ c[j][k] = 0) => c[i][k] = 0
    /\ \A i, j, k \in I : (c[i][j] < 0 /\ c[j][k] < 0) => c[i][k] < 0

\* the stable sort of ts under a consistent comparator: an element comes
\* after the elements that compare smaller and after the equal ones that
\* precede it in ts
StableSort(ts, c) ==
    LET I == 1..Len(ts)
        rank == [i \in I |->
                   1 + Cardinality({j \in I : \/ c[j][i] < 0
                                              \/ c[j][i] = 0 /\ j < i})]
    IN [r \in I |-> ts[CHOOSE i \in I : rank[i] = r]]

Reorderings(ts) ==
    {[i \in 1..Len(ts) |-> ts[p[i]]] : p \in Permutations(1..Len(ts))}

\* what [...filteredTasks].sort(comparator) can return: the stable sort
\* when the comparator is consistent, else an order the engine chooses
sortedTasks(ts, sortBy, sortOrder) ==
    LET I == 1..Len(ts)
        c == [i \in I |-> [j \in I |-> Cmp(ts[i], ts[j], sortBy, sortOrder)]]
    IN IF Consistent(c, I) THEN {StableSort(ts, c)} ELSE Reorderings(ts)

-----------------------------------------------------------------------------
(* TaskList as a state machine: the props and the state, and the two memos  *)
(* recomputed by the render that follows every change                       *)

\* a render with the props and state v: both memos are recomputed
Render(v) ==
    LET filtered == filteredTasks(v.tasks, v.searchQuery) IN
    \E sorted \in sortedTasks(filtered, v.sortBy, v.sortOrder) :
        view' = [v EXCEPT !.filteredTasks = filtered, !.sortedTasks = sorted]

InitView ==
    /\ platform = "web"
    /\ kv = NoItem
    /\ sql = NoSql
    /\ clock = 1
    /\ db = "null"
    /\ tasks = <<>>
    /\ booted = FALSE
    /\ nOps = 0
    /\ last = NoLast
    /\ dual = DualIdle
    /\ calls = <<>>
    /\ \E ts \in ViewLists :
        view \in {[ViewIdle EXCEPT !.tasks = ts, !.filteredTasks = ts,
                                   !.sortedTasks = sorted] :
                  sorted \in sortedTasks(ts, "status", "asc")}

ViewFrame ==
    UNCHANGED <<platform, kv, sql, clock, db, tasks, booted, nOps, last, dual,
                calls>>

setSearchQuery ==
    /\ \E text \in Queries : Render([view EXCEPT !.searchQuery = text])
    /\ ViewFrame

setSortBy ==
    /\ \E key \in {"status", "deadline"} : Render([view EXCEPT !.sortBy = key])
    /\ ViewFrame

toggleSortOrder ==
    /\ Render([view EXCEPT
                 !.sortOrder = IF view.sortOrder = "asc" THEN "desc" ELSE "asc"])
    /\ ViewFrame

NextView ==
    \/ setSearchQuery
    \/ setSortBy
    \/ toggleSortOrder

SpecView == InitView /\ [][NextView]_vars

-----------------------------------------------------------------------------
(* Properties of the filter and of the sort *)

\* the deadline is set and new Date reads a date in it
Parseable(t) == Truthy(t.deadline) /\ NewDate(t.deadline.s).valid

TimeOf(t) == getTime(NewDate(t.deadline.s)).n

\* C5: when sorting by deadline, every task whose deadline is absent or
\* unparseable comes after every task with a parseable deadline, ascending
\* and descending alike, and the tasks with parseable deadlines are ordered
\* by date (reversed when descending).
C5_DeadlineSort ==
    view.sortBy = "deadline" =>
        LET sorted == view.sortedTasks IN
        \A i, j \in 1..Len(sorted) :
            i < j =>
                /\ ~(~Parseable(sorted[i]) /\ Parseable(sorted[j]))
                /\ (Parseable(sorted[i]) /\ Parseable(sorted[j])) =>
                       IF view.sortOrder = "asc"
                       THEN TimeOf(sorted[i]) <= TimeOf(sorted[j])
                       ELSE TimeOf(sorted[i]) >= TimeOf(sorted[j])

TermineText == <<"t", "e", "r", "m", "i", "n", "e">>

\* the search text is 'termine', in any letter case, with or without accent
TermineQuery == NormalizedQuery(view.searchQuery) = TermineText

\* C6 as stated: filtering with the query 'termine' (any letter case, with
\* or without the accent) returns only tasks whose status is the done value.
C6_OnlyDone ==
    TermineQuery =>
        \A i \in 1..Len(view.filteredTasks) :
            view.filteredTasks[i].status = Termine

TermineInText(t) ==
    \/ Includes(toLowerCase(t.title.s), TermineText)
    \/ Includes(toLowerCase(t.description.s), TermineText)

DoneOrTermineInText(t) == t.status = Termine \/ TermineInText(t)

\* C6 amended: filtering with the query 'termine' (any letter case, with or
\* without the accent) returns, in their order, exactly the tasks whose
\* status is the done value or whose lower-cased title or description holds
\* 'termine': a task in progress is in the result only for its title or
\* description, whatever its deadline.
C6_DoneOrTermineInText ==
    TermineQuery =>
        view.filteredTasks = SelectSeq(view.tasks, DoneOrTermineInText)

InFiltered(t) ==
    \E i \in 1..Len(view.filteredTasks) : view.filteredTasks[i].id = t.id

\* the query 'termine' kept a done task and left out a task in progress
C6_Witness ==
    /\ TermineQuery
    /\ \E i \in 1..Len(view.filteredTasks) :
         view.filteredTasks[i].status = Termine
    /\ \E i \in 1..Len(view.tasks) :
         /\ view.tasks[i].status = EnCours
         /\ ~InFiltered(view.tasks[i])

\* C7: for a non-empty query, a task whose status, title and description do
\* not hold the query is still matched when its deadline is parseable and,
\* the query not being all digits, its ISO date (YYYY-MM-DD) holds the query,
\* or, the query being all digits, its day, month or year holds the query.
\* (The locale-formatted text of the claim is a further way to match and is
\* not needed to state this.)
C7_DateMatch ==
    LET q == NormalizedQuery(view.searchQuery) IN
    q # <<>> =>
        \A i \in 1..Len(view.tasks) :
            LET t == view.tasks[i]
                date == LocalDate(NewDate(t.deadline.s))
            IN
            (/\ Parseable(t)
             /\ ~Includes(NormalizedStatus(t), q)
             /\ ~Includes(toLowerCase(t.title.s), q)
             /\ ~Includes(toLowerCase(t.description.s), q)
             /\ IF AllDigits(q)
                THEN \/ Includes(Pad2(date.d), q)
                     \/ Includes(Pad2(date.m), q)
                     \/ Includes(NumStr(date.y), q)
                ELSE Includes(IsoDate(NewDate(t.deadline.s)), q))
            => InFiltered(t)

-----------------------------------------------------------------------------
(* The task list App renders, under a blank search text *)

\* search texts that are empty or hold white space only
BlankQueries == {<<>>, <<" ">>, <<" ", " ">>}

\* C11: filtering with an empty or whitespace-only query returns every task
\* of the in-memory collection, in the collection's order, whichever backend
\* the collection was loaded from.
C11_BlankQueryKeepsAll ==
    \A searchQuery \in BlankQueries : filteredTasks(tasks, searchQuery) = tasks

\* a collection of two or more tasks, one of them done, reloaded from the
\* key-value backend and filtered
C11_Witness ==
    /\ db = "web"
    /\ last.reloaded /\ ~last.reloadFault
    /\ Len(tasks) >= 2
    /\ tasks = Stored
    /\ \E i \in 1..Len(tasks) : tasks[i].status = Termine
    /\ filteredTasks(tasks, <<" ">>) = tasks

-----------------------------------------------------------------------------
(* Start-up failures *)

\* the effect run on mount ended with openDatabase rejected
OpenFailed == last.op = "boot" /\ last.threw

\* the effect run on mount ended with the first select rejected or failed
SelectFailed == last.op = "boot" /\ last.reloadFault

\* C12 as stated: when opening the backend fails, or the first select-all
\* fails, the in-memory list is empty and stays empty under every later add,
\* delete, setStatus and setDeadline, and no mutation is issued to storage.
\* Stated for the action that follows the failed start: it leaves the list
\* empty and storage as it was.
C12_FailedStartFreezes ==
    [][(OpenFailed \/ SelectFailed) =>
           (tasks = <<>> /\ tasks' = <<>> /\ kv' = kv /\ sql' = sql)]_vars

\* C12 amended: when opening the backend fails no handle is set, the list is
\* empty and stays empty, every later handler returns at once and storage is
\* left as it was; when only the first select-all fails the list is empty at
\* that point but the handle is set.
C12_OpenFailureFreezes ==
    /\ OpenFailed => db = "null"
    /\ (booted /\ db = "null") =>
           /\ tasks = <<>>
           /\ last.op \in Mutations => (~last.had /\ Stored = last.pre)
    /\ SelectFailed => (db = platform /\ tasks = <<>>)

\* the open failed and an add issued later did nothing
C12_Witness ==
    /\ booted /\ db = "null"
    /\ last.op = SQL_INSERT /\ ~last.had
    /\ nOps >= 2
    /\ tasks = <<>>

-----------------------------------------------------------------------------
(* User actions in flight.  A handler of App is an async function: it runs   *)
(* up to an await, and what follows the await runs when the awaited storage  *)
(* call has answered; in between, other handlers run.  The application is    *)
(* open, and one task was stored by an earlier run.  No storage call fails.  *)

\* the task stored by the earlier run
StoredBefore ==
    [id |-> 1, title |-> Lait, description |-> Str(<<>>), status |-> EnCours,
     deadline |-> IF platform = "web" THEN Str(<<>>) ELSE JNull]

InitAsync ==
    /\ platform \in {"web", "native"}
    /\ kv = IF platform = "web" THEN JSONStringify(<<StoredBefore>>) ELSE NoItem
    /\ sql = IF platform = "native"
             THEN [NoSql EXCEPT !.cols = TaskColumns,
                                !.rows = <<StoredBefore>>, !.seq = 1]
             ELSE NoSql
    /\ clock = 1
    /\ db = platform
    /\ tasks = <<StoredBefore>>
    /\ booted = TRUE
    /\ nOps = 0
    /\ last = NoLast
    /\ dual = DualIdle
    /\ view = ViewIdle
    /\ calls = <<>>

AsyncFrame == UNCHANGED <<platform, clock, db, booted, nOps, last, dual, view>>

\* a handler is called: db is set, and it runs up to its first await, the
\* call of db.runAsync
Issue(stmt, params) ==
    /\ Len(calls) < MaxCalls
    /\ db # "null"
    /\ calls' = Append(calls,
                       [stmt |-> stmt, params |-> params,
                        pc |-> IF db = "web" THEN "load" ELSE "run",
                        buf |-> <<>>, now |-> 0])
    /\ UNCHANGED <<kv, sql, tasks>>
    /\ AsyncFrame

IssueAdd == \E task \in NewTasks : Issue(SQL_INSERT, AddParams(task))

IssueDelete == \E id \in KnownIds : Issue(SQL_DELETE, <<id>>)

IssueSetStatus ==
    \E id \in KnownIds, newStatus \in TaskStatus :
        Issue(SQL_SET_STATUS, <<newStatus, id>>)

IssueSetDeadline ==
    \E id \in KnownIds, deadline \in PromptedDates :
        Issue(SQL_SET_DEADLINE, <<deadline, id>>)

\* webDatabase.runAsync up to its await: the whole collection is read
WebLoad ==
    \E i \in 1..Len(calls) :
        /\ calls[i].pc = "load"
        /\ calls' = [calls EXCEPT ![i].buf = WebGetAll(kv), ![i].pc = "write"]
        /\ UNCHANGED <<kv, sql, tasks>>
        /\ AsyncFrame

\* webDatabase.runAsync after the read: the array read is changed and the
\* whole of it is written back
WebWrite ==
    \E i \in 1..Len(calls) :
        LET c == calls[i] IN
        /\ c.pc = "write"
        /\ kv' = JSONStringify(WebApply(c.buf, clock, c.stmt, c.params))
        /\ calls' = [calls EXCEPT ![i].now = clock, ![i].pc = "reload"]
        /\ UNCHANGED <<sql, tasks>>
        /\ AsyncFrame

\* the runAsync of the relational backend: the engine runs the statement
NativeRun ==
    \E i \in 1..Len(calls) :
        LET c == calls[i] IN
        /\ c.pc = "run"
        /\ sql' = NativeRunAsync(sql, c.stmt, c.params, FALSE).store
        /\ calls' = [calls EXCEPT ![i].pc = "reload"]
        /\ UNCHANGED <<kv, tasks>>
        /\ AsyncFrame

\* db.getAllAsync of the handler: the collection is read
Reload ==
    \E i \in 1..Len(calls) :
        /\ calls[i].pc = "reload"
        /\ calls' = [calls EXCEPT ![i].buf = Stored, ![i].pc = "set"]
        /\ UNCHANGED <<kv, sql, tasks>>
        /\ AsyncFrame

\* the handler resumes with the rows read and calls setTasks
SetTasks ==
    \E i \in 1..Len(calls) :
        /\ calls[i].pc = "set"
        /\ tasks' = calls[i].buf
        /\ calls' = [calls EXCEPT ![i].pc = "done"]
        /\ UNCHANGED <<kv, sql>>
        /\ AsyncFrame

NextAsync ==
    \/ IssueAdd
    \/ IssueDelete
    \/ IssueSetStatus
    \/ IssueSetDeadline
    \/ WebLoad
    \/ WebWrite
    \/ NativeRun
    \/ Reload
    \/ SetTasks
    \/ Tick

SpecAsync == InitAsync /\ [][NextAsync]_vars

\* every runAsync issued has answered
Mutated == \A i \in 1..Len(calls) : calls[i].pc \in {"reload", "set", "done"}

\* the collections that the calls of the set cs leave when they run one
\* after the other, in every order, from the collection ts
RECURSIVE SerialOutcomes(_, _)
SerialOutcomes(ts, cs) ==
    IF cs = {} THEN {ts}
    ELSE UNION {SerialOutcomes(
                    WebApply(ts, calls[i].now, calls[i].stmt, calls[i].params),
                    cs \ {i}) : i \in cs}

\* C13: on the key-value backend, when mutate calls were in flight at the
\* same time, once all have completed the stored collection holds the effect
\* of each of them: it is what the calls leave when run one after the other
\* in some order, so that no completed insert, update or delete is lost.
C13_NoLostMutation ==
    (platform = "web" /\ Mutated) =>
        WebGetAll(kv) \in SerialOutcomes(<<StoredBefore>>, 1..Len(calls))

\* every handler called has run to its end
AllDone == calls # <<>> /\ \A i \in 1..Len(calls) : calls[i].pc = "done"

\* C14: when no storage call fails, once every user action issued (mutate,
\* then full reload, then replace the in-memory list) has run to completion,
\* the in-memory list equals the stored collection, also when an action was
\* issued before the reload of an earlier one had replaced the list.
C14_MemoryEqualsStored == AllDone => tasks = Stored

====
